---------------------------- MODULE Spec2Model ----------------------------
(***************************************************************************)
(* dm-verity volume handling (lib/verity/verity.c), NEW_SB build: the      *)
(* superblock codec (VERITY_read_sb, VERITY_write_sb), the hash offset     *)
(* arithmetic (VERITY_hash_offset_block) and the activation sequence       *)
(* (VERITY_activate).                                                      *)
(*                                                                         *)
(* Bytes are 0..255, C strings and buffers are sequences of bytes, a       *)
(* pointer is a record [st, val] with st in {"null", "valid", "freed"}.    *)
(* Host integers are naturals below 2^31 (the range of TLC's integers), so    *)
(* every header or parameter value of the model stays below that.          *)
(***************************************************************************)
EXTENDS Integers, Sequences, FiniteSets, TLC

(***************************************************************************)
(* Program constants                                                       *)
(***************************************************************************)
EINVAL == 22
EIO == 5
ENOMEM == 12
ENOTSUP == 95

CRYPT_VERITY_NO_HEADER == 1
CRYPT_VERITY_CHECK_HASH == 2

\* sizeof(struct verity_sb), packed, and the widths of its array fields
SB_SIZE == 512
SIG_LEN == 8
UUID_LEN == 16
ALG_LEN == 32
SALT_LEN == 256
PAD_LEN == 160
UUID_STR_LEN == 36

\* byte offsets of the fields of the packed struct verity_sb
OFF_signature == 0
OFF_version == 8
OFF_hash_type == 12
OFF_uuid == 16
OFF_algorithm == 32
OFF_data_block_size == 64
OFF_hash_block_size == 72
OFF_data_blocks == 80
OFF_salt_size == 88
OFF_salt == 96

\* "verity\0\0"
VERITY_SIGNATURE == <<118, 101, 114, 105, 116, 121, 0, 0>>

(***************************************************************************)
(* Bounds of the model                                                     *)
(***************************************************************************)
MaxVersion == 2
MaxHashType == 2
MaxDataBlocks == 1
MaxAreaOffset == 1100

(***************************************************************************)
(* Pointers, flags, bytes                                                  *)
(***************************************************************************)
Null == [st |-> "null", val |-> <<>>]
Freed == [st |-> "freed", val |-> <<>>]
Valid(v) == [st |-> "valid", val |-> v]

HasFlag(flags, bit) == (flags \div bit) % 2 = 1

Zeros(n) == [i \in 1..n |-> 0]
Fill(n, c) == [i \in 1..n |-> c]

\* the bytes of a struct field: size bytes from byte offset off
Field(sb, off, size) == SubSeq(sb, off + 1, off + size)

RECURSIVE ToLE(_, _)
ToLE(v, n) == IF n = 0 THEN <<>> ELSE <<v % 256>> \o ToLE(v \div 256, n - 1)

RECURSIVE FromLE(_)
FromLE(b) == IF Len(b) = 0 THEN 0 ELSE b[1] + 256 * FromLE(Tail(b))

cpu_to_le32(v) == ToLE(v, 4)
cpu_to_le64(v) == ToLE(v, 8)
le32_to_cpu(b) == FromLE(b)
le64_to_cpu(b) == FromLE(b)

(***************************************************************************)
(* libc and libuuid, as the calls of this file use them                    *)
(***************************************************************************)
\* a copy that always leaves room for a terminator
strncpy_terminated(src, n) == [i \in 1..n |-> IF i <= Len(src) /\ i < n THEN src[i] ELSE 0]

\* strncpy(dst, src, n) into a zeroed dst: no terminator when Len(src) >= n
strncpy(src, n) == [i \in 1..n |-> IF i <= Len(src) THEN src[i] ELSE 0]

\* strndup(s, n): the bytes before the first NUL, at most n of them
strndup(s, n) ==
    LET m == IF n < Len(s) THEN n ELSE Len(s)
        nul == {i \in 1..m : s[i] = 0}
        len == IF nul = {} THEN m ELSE (CHOOSE i \in nul : \A j \in nul : i <= j) - 1
    IN  SubSeq(s, 1, len)

\* memcpy(dst, src, n) into a zeroed dst of size cap
memcpy_into(cap, src, n) == [i \in 1..cap |-> IF i <= n THEN src[i] ELSE 0]

IsHex(c) == c \in (48..57) \cup (65..70) \cup (97..102)
HexVal(c) == IF c \in 48..57 THEN c - 48 ELSE IF c \in 65..70 THEN c - 55 ELSE c - 87
HexChar(d) == IF d < 10 THEN 48 + d ELSE 87 + d

\* the position in the 36-character text of the first digit of byte i
UuidPos(i) ==
    2 * i - 1 + (IF i > 4 THEN 1 ELSE 0) + (IF i > 6 THEN 1 ELSE 0)
              + (IF i > 8 THEN 1 ELSE 0) + (IF i > 10 THEN 1 ELSE 0)
UuidDashes == {9, 14, 19, 24}

\* uuid_parse: -1 unless the text is 8-4-4-4-12 hexadecimal digits
uuid_parse_ok(t) ==
    /\ Len(t) = UUID_STR_LEN
    /\ \A i \in 1..UUID_STR_LEN : IF i \in UuidDashes THEN t[i] = 45 ELSE IsHex(t[i])
uuid_parse(t) ==
    [i \in 1..UUID_LEN |-> 16 * HexVal(t[UuidPos(i)]) + HexVal(t[UuidPos(i) + 1])]

\* uuid_unparse: lower case digits
uuid_unparse(u) ==
    [k \in 1..UUID_STR_LEN |->
        IF k \in UuidDashes THEN 45
        ELSE LET i == CHOOSE j \in 1..UUID_LEN : k \in {UuidPos(j), UuidPos(j) + 1}
             IN  IF k = UuidPos(i) THEN HexChar(u[i] \div 16) ELSE HexChar(u[i] % 16)]

(***************************************************************************)
(* Diagnostics (log_err) and the record of the calls a function makes      *)
(***************************************************************************)
MSG_NO_HEADER == "Verity device doesn't use on-disk header."
MSG_OPEN == "Cannot open device."
MSG_NOT_VERITY == "Device is not a valid VERITY device."
MSG_VERSION == "Unsupported VERITY version."
MSG_HASH_TYPE == "Unsupported VERITY hash type."
MSG_BLOCK_SIZE == "Unsupported VERITY block size."
MSG_CORRUPTED == "VERITY header corrupted."
MSG_UUID == "Wrong VERITY UUID format provided."
MSG_UPDATE == "Error during update of verity header on device."
MSG_NO_DM_VERITY == "Kernel doesn't support dm-verity mapping."
MSG_CORRUPTION == "Verity device detected corruption after activation."

\* one call of a library function or collaborator, with what it returned
Ev(fn, r) == [fn |-> fn, r |-> r]
Calls(trace, fn) == {i \in 1..Len(trace) : trace[i].fn = fn}

\* struct crypt_params_verity, the fields this file uses
ZeroParams ==
    [hash_name |-> Null, data_block_size |-> 0, hash_block_size |-> 0,
     data_size |-> 0, salt |-> Null, salt_size |-> 0, hash_type |-> 0,
     hash_area_offset |-> 0, flags |-> 0]

(***************************************************************************)
(* VERITY_read_sb                                                          *)
(***************************************************************************)
\* a transfer that counts only an error as a failure
ShortIO_errors_only(n, hdr_size) == n < 0

\* read_blockwise(...) < hdr_size, write_lseek_blockwise(...) < hdr_size
ShortIO(n, hdr_size) == n < hdr_size

\* the error path returns without closing the handle
ReadBurst_leak(dsk, sb_offset, env) ==
    IF env.lseek < 0
    THEN [ok |-> FALSE, sb |-> Zeros(SB_SIZE), io |-> <<Ev("lseek", env.lseek)>>]
    ELSE IF ShortIO(env.nread, SB_SIZE)
    THEN [ok |-> FALSE, sb |-> Zeros(SB_SIZE),
          io |-> <<Ev("lseek", env.lseek), Ev("read_blockwise", env.nread)>>]
    ELSE [ok |-> TRUE, sb |-> dsk,
          io |-> <<Ev("lseek", env.lseek), Ev("read_blockwise", env.nread), Ev("close", 0)>>]

\* seek, one read of the header, close
ReadBurst(dsk, sb_offset, env) ==
    IF env.lseek < 0
    THEN [ok |-> FALSE, sb |-> Zeros(SB_SIZE),
          io |-> <<Ev("lseek", env.lseek), Ev("close", 0)>>]
    ELSE IF ShortIO(env.nread, SB_SIZE)
    THEN [ok |-> FALSE, sb |-> Zeros(SB_SIZE),
          io |-> <<Ev("lseek", env.lseek), Ev("read_blockwise", env.nread), Ev("close", 0)>>]
    ELSE [ok |-> TRUE, sb |-> dsk,
          io |-> <<Ev("lseek", env.lseek), Ev("read_blockwise", env.nread), Ev("close", 0)>>]

SignatureOk(sb) == Field(sb, OFF_signature, SIG_LEN) = VERITY_SIGNATURE

\* the legacy format's test
VersionOk_legacy(sb_version) == sb_version <= 1

VersionOk(sb_version) == sb_version = 1

HashTypeOk(hash_type) == ~(hash_type > 1)

BlockSizesOk(data_block_size, hash_block_size) ==
    ~(data_block_size % 512 # 0 \/ hash_block_size % 512 # 0)

SaltSizeOk(salt_size) == ~(salt_size > SALT_LEN)

RdResult(r, p, u, l, i) == [ret |-> r, params |-> p, uuid_string |-> u, log |-> l, io |-> i]

\* the decoding of a header whose signature matched
ParseSb(sb, sb_offset, params, uuid_string, env, io) ==
    LET sb_version == le32_to_cpu(Field(sb, OFF_version, 4))
        p1 == [params EXCEPT !.hash_type = le32_to_cpu(Field(sb, OFF_hash_type, 4))]
        p2 == [p1 EXCEPT !.data_block_size = le64_to_cpu(Field(sb, OFF_data_block_size, 8)),
                         !.hash_block_size = le64_to_cpu(Field(sb, OFF_hash_block_size, 8))]
        p3 == [p2 EXCEPT !.data_size = le64_to_cpu(Field(sb, OFF_data_blocks, 8))]
        name == strndup(Field(sb, OFF_algorithm, ALG_LEN), ALG_LEN)
        io4 == io \o <<Ev("strndup", IF env.alloc_name THEN 1 ELSE 0)>>
        p4 == [p3 EXCEPT !.hash_name = IF env.alloc_name THEN Valid(name) ELSE Null]
        p5 == [p4 EXCEPT !.salt_size = le64_to_cpu(Field(sb, OFF_salt_size, 8))]
        p5f == [p5 EXCEPT !.hash_name = Freed]
        io6 == io4 \o <<Ev("malloc(salt_size)", IF env.alloc_salt THEN 1 ELSE 0)>>
        p6 == [p5 EXCEPT !.salt = Valid(SubSeq(Field(sb, OFF_salt, SALT_LEN), 1, p5.salt_size))]
        p6f == [p5f EXCEPT !.salt = Null]
        io7 == io6 \o <<Ev("malloc(40)", IF env.alloc_uuid THEN 1 ELSE 0)>>
        u7 == IF env.alloc_uuid THEN Valid(uuid_unparse(Field(sb, OFF_uuid, UUID_LEN))) ELSE Null
        p7 == [p6 EXCEPT !.hash_area_offset = sb_offset]
    IN  IF ~VersionOk(sb_version)
        THEN RdResult(-EINVAL, params, uuid_string, <<MSG_VERSION>>, io)
        ELSE IF ~HashTypeOk(p1.hash_type)
        THEN RdResult(-EINVAL, p1, uuid_string, <<MSG_HASH_TYPE>>, io)
        ELSE IF ~BlockSizesOk(p2.data_block_size, p2.hash_block_size)
        THEN RdResult(-EINVAL, p2, uuid_string, <<MSG_BLOCK_SIZE>>, io)
        ELSE IF ~env.alloc_name
        THEN RdResult(-ENOMEM, p4, uuid_string, <<>>, io4)
        ELSE IF ~SaltSizeOk(p5.salt_size)
        THEN RdResult(-EINVAL, p5f, uuid_string, <<MSG_CORRUPTED>>, io4 \o <<Ev("free", 0)>>)
        ELSE IF ~env.alloc_salt
        THEN RdResult(-ENOMEM, p6f, uuid_string, <<>>, io6 \o <<Ev("free", 0)>>)
        ELSE RdResult(0, p7, u7, <<>>, io7)

VERITY_read_sb(dsk, sb_offset, uuid_string, params, env) ==
    IF HasFlag(params.flags, CRYPT_VERITY_NO_HEADER)
    THEN RdResult(-EINVAL, params, uuid_string, <<MSG_NO_HEADER>>, <<>>)
    ELSE IF env.open = -1
    THEN RdResult(-EINVAL, params, uuid_string, <<MSG_OPEN>>, <<Ev("open", env.open)>>)
    ELSE LET burst == ReadBurst(dsk, sb_offset, env)
             io == <<Ev("open", env.open)>> \o burst.io
         IN  IF ~burst.ok
             THEN RdResult(-EIO, params, uuid_string, <<>>, io)
             ELSE IF ~SignatureOk(burst.sb)
             THEN RdResult(-EINVAL, params, uuid_string, <<MSG_NOT_VERITY>>, io)
             ELSE ParseSb(burst.sb, sb_offset, params, uuid_string, env, io)

(***************************************************************************)
(* VERITY_write_sb                                                         *)
(***************************************************************************)
\* struct verity_sb sb = {} with its fields set, as it lies in memory
EncodeSb(params, uuid) ==
    VERITY_SIGNATURE
    \o cpu_to_le32(1)
    \o cpu_to_le32(params.hash_type)
    \o uuid
    \o strncpy(params.hash_name.val, ALG_LEN)
    \o cpu_to_le64(params.data_block_size)
    \o cpu_to_le64(params.hash_block_size)
    \o cpu_to_le64(params.data_size)
    \o cpu_to_le64(params.salt_size)
    \o memcpy_into(SALT_LEN, params.salt.val, params.salt_size)
    \o Zeros(PAD_LEN)

WrResult(r, l, i, d) == [ret |-> r, log |-> l, io |-> i, sb_sector |-> d]

\* The header is one 512-byte sector: a transfer of fewer than hdr_size bytes
\* leaves the sector as it was.
VERITY_write_sb(dsk, sb_offset, uuid_string, params, env) ==
    IF uuid_string.st = "null" \/ ~uuid_parse_ok(uuid_string.val)
    THEN WrResult(-EINVAL, <<MSG_UUID>>, <<>>, dsk)
    ELSE IF HasFlag(params.flags, CRYPT_VERITY_NO_HEADER)
    THEN WrResult(-EINVAL, <<MSG_NO_HEADER>>, <<>>, dsk)
    ELSE IF env.open = -1
    THEN WrResult(-EINVAL, <<MSG_OPEN>>, <<Ev("open", env.open)>>, dsk)
    ELSE LET sb == EncodeSb(params, uuid_parse(uuid_string.val))
             r == IF ShortIO(env.nwritten, SB_SIZE) THEN -EIO ELSE 0
         IN  WrResult(r, IF r # 0 THEN <<MSG_UPDATE>> ELSE <<>>,
                      <<Ev("open", env.open), Ev("write_lseek_blockwise", env.nwritten),
                        Ev("close", 0)>>,
                      IF env.nwritten = SB_SIZE THEN sb ELSE dsk)

(***************************************************************************)
(* VERITY_hash_offset_block                                                *)
(***************************************************************************)
\* One outcome of a 64-bit unsigned division.  Division by zero is undefined:
\* the call traps (SIGFPE) or goes on with a value the hardware leaves.
Outcome(c, v) == [crashed |-> c, val |-> v]
Div64(a, b) ==
    IF b = 0
    THEN {Outcome(TRUE, 0)} \cup {Outcome(FALSE, v) : v \in {0, 1}}
    ELSE {Outcome(FALSE, a \div b)}

\* the set of outcomes of the call (one, unless hash_block_size is 0)
VERITY_hash_offset_block(params) ==
    IF HasFlag(params.flags, CRYPT_VERITY_NO_HEADER)
    THEN Div64(params.hash_area_offset, params.hash_block_size)
    ELSE Div64(params.hash_area_offset + SB_SIZE + (params.hash_block_size - 1),
               params.hash_block_size)

(***************************************************************************)
(* VERITY_activate                                                         *)
(***************************************************************************)
\* the verifier's result is not looked at
VerifyFailed_unchecked(r) == FALSE

VerifyFailed(r) == r < 0

\* the check for a missing name is lost
NoName_unchecked(name) == FALSE

NoName(name) == name.st = "null"

\* only a negative result aborts
CheckFailed_negative_only(r) == r < 0

CheckFailed(r) == r # 0

\* the capability is tested whatever the creation returned
KernelLacksVerity_any_result(r, supported) == ~supported

\* !r && !(dm_flags() & DM_VERITY_SUPPORTED)
KernelLacksVerity(r, supported) == r = 0 /\ ~supported

CreateFailed(r) == r < 0

\* a status of 0 (corruption) is taken for a failure
StatusFailed_strict(r) == r <= 0

StatusFailed(r) == r < 0

AcResult(r, l, i, c) == [ret |-> r, log |-> l, io |-> i, crashed |-> c]

\* env: what the collaborators return in this call, and the outcome ho of the
\* hash offset computation.  device_check_and_adjust may replace dmd.size by
\* the size it found; what it does to dmd.flags and offset is not kept.
VERITY_activate(name, verity_hdr, activation_flags, env) ==
    LET checks == HasFlag(verity_hdr.flags, CRYPT_VERITY_CHECK_HASH)
        io1 == IF checks THEN <<Ev("VERITY_verify", env.verify)>> ELSE <<>>
        size == (verity_hdr.data_size * verity_hdr.data_block_size) \div 512
        io2 == io1 \o <<Ev("device_check_and_adjust", env.check)>>
        dmd == [size |-> IF env.adjust THEN env.dev_size ELSE size,
                hash_offset |-> env.ho.val, flags |-> activation_flags,
                name |-> name.val]
        io3 == io2 \o <<[fn |-> "dm_create_device", r |-> env.create, dmd |-> dmd]>>
        io3f == IF env.create = 0
                THEN io3 \o <<Ev("dm_flags", IF env.supported THEN 1 ELSE 0)>>
                ELSE io3
        io4 == io3f \o <<Ev("dm_status_verity_ok", env.status)>>
    IN  IF checks /\ VerifyFailed(env.verify)
        THEN AcResult(env.verify, <<>>, io1, FALSE)
        ELSE IF NoName(name)
        THEN AcResult(0, <<>>, io1, FALSE)
        ELSE IF env.ho.crashed
        THEN AcResult(0, <<>>, io1, TRUE)
        ELSE IF CheckFailed(env.check)
        THEN AcResult(env.check, <<>>, io2, FALSE)
        ELSE IF KernelLacksVerity(env.create, env.supported)
        THEN AcResult(-ENOTSUP, <<MSG_NO_DM_VERITY>>, io3f, FALSE)
        ELSE IF CreateFailed(env.create)
        THEN AcResult(env.create, <<>>, io3f, FALSE)
        ELSE IF StatusFailed(env.status)
        THEN AcResult(env.status, <<>>, io4, FALSE)
        ELSE AcResult(0, IF env.status = 0 THEN <<MSG_CORRUPTION>> ELSE <<>>, io4, FALSE)

(***************************************************************************)
(* State                                                                   *)
(***************************************************************************)
VARIABLES
    sb_sector,   \* the 512-byte sector of the device at sb_offset
    sb_offset,   \* the superblock location the calls of a behaviour address
    wrote,       \* what the last complete VERITY_write_sb put in that sector
    op,          \* "idle", or the function whose call has just returned
    args,        \* the arguments of that call the results are stated against
    ret,         \* its return value
    params,      \* struct crypt_params_verity as the call left it (the struct
                 \* of a write call is kept in wrote alone)
    uuid_string, \* *uuid_string as the call left it
    log,         \* the diagnostics it printed (log_err)
    io,          \* the library and collaborator calls it made, in order
    crashed      \* the call ended in a division by zero instead of returning

vars == <<sb_sector, sb_offset, wrote, op, args, ret, params, uuid_string, log, io, crashed>>

NoArgs == [flags |-> 0]
NoWrite == [st |-> "none", params |-> ZeroParams, uuid_string |-> Null]

(***************************************************************************)
(* Inputs of the codec                                                     *)
(***************************************************************************)
SHA256 == <<115, 104, 97, 50, 53, 54>>
HashNames == {SHA256, Fill(ALG_LEN, 97), Fill(ALG_LEN + 1, 97)}
BlockSizes == {512, 1000, 4096}
DataSizes == {70000 * k : k \in 0..MaxDataBlocks}
Salts == {<<>>, <<222, 173>>, [i \in 1..SALT_LEN |-> i % 256]}
Offsets == {0, 4096}

\* the struct a caller hands to VERITY_write_sb: a usual one, and every field
\* of it in turn at each of its other values
BaseParams ==
    [hash_name |-> Valid(SHA256), data_block_size |-> 4096, hash_block_size |-> 4096,
     data_size |-> 70000, salt |-> Valid(<<222, 173>>), salt_size |-> 2, hash_type |-> 1,
     hash_area_offset |-> 0, flags |-> 0]
WriteParams ==
    {[BaseParams EXCEPT !.hash_name = Valid(n)] : n \in HashNames}
    \cup {[BaseParams EXCEPT !.data_block_size = d] : d \in BlockSizes}
    \cup {[BaseParams EXCEPT !.hash_block_size = h] : h \in BlockSizes}
    \cup {[BaseParams EXCEPT !.data_size = z] : z \in DataSizes}
    \cup {[BaseParams EXCEPT !.salt = Valid(x), !.salt_size = Len(x)] : x \in Salts}
    \cup {[BaseParams EXCEPT !.hash_type = t] : t \in 0..MaxHashType}

UUID_BYTES == <<1, 35, 69, 103, 137, 171, 205, 239, 0, 17, 34, 51, 68, 85, 102, 119>>
UuidTexts ==
    {Null,
     Valid(uuid_unparse(UUID_BYTES)),
     Valid([i \in 1..UUID_STR_LEN |-> IF i \in UuidDashes THEN 45 ELSE 65]),
     Valid([uuid_unparse(UUID_BYTES) EXCEPT ![1] = 103])}

\* a header as it may lie on a device this library did not write
RawSb(sig, version, hash_type, dbs, hbs, salt_size) ==
    sig \o ToLE(version, 4) \o ToLE(hash_type, 4) \o UUID_BYTES \o strncpy(SHA256, ALG_LEN)
    \o ToLE(dbs, 8) \o ToLE(hbs, 8) \o ToLE(1000, 8) \o ToLE(salt_size, 8)
    \o Fill(SALT_LEN, 90) \o Zeros(PAD_LEN)

InitImages ==
    {Zeros(SB_SIZE)} \cup
    {RawSb(sig, v, t, b[1], b[2], z) :
        sig \in {VERITY_SIGNATURE, [VERITY_SIGNATURE EXCEPT ![SIG_LEN] = 1]},
        v \in 0..MaxVersion, t \in 0..MaxHashType,
        b \in {<<512, 512>>, <<1000, 512>>, <<512, 1000>>, <<512, 0>>},
        z \in {SALT_LEN, SALT_LEN + 1}}

\* what the environment does to one call: every library call works, or one fails
GoodRead == [open |-> 3, lseek |-> 0, nread |-> SB_SIZE,
             alloc_name |-> TRUE, alloc_salt |-> TRUE, alloc_uuid |-> TRUE]
ReadEnvs ==
    {GoodRead, [GoodRead EXCEPT !.open = -1], [GoodRead EXCEPT !.lseek = -1],
     [GoodRead EXCEPT !.alloc_name = FALSE], [GoodRead EXCEPT !.alloc_salt = FALSE],
     [GoodRead EXCEPT !.alloc_uuid = FALSE]}
    \cup {[GoodRead EXCEPT !.nread = n] : n \in {-1, 0, SB_SIZE - 1}}

GoodWrite == [open |-> 3, nwritten |-> SB_SIZE]
WriteEnvs ==
    {GoodWrite, [GoodWrite EXCEPT !.open = -1]}
    \cup {[GoodWrite EXCEPT !.nwritten = n] : n \in {-1, SB_SIZE - 1}}

(***************************************************************************)
(* The codec as a state machine                                            *)
(***************************************************************************)
InitCodec ==
    /\ sb_sector \in InitImages
    /\ sb_offset \in Offsets
    /\ wrote = NoWrite
    /\ op = "idle" /\ args = NoArgs /\ ret = 0 /\ params = ZeroParams
    /\ uuid_string = Null /\ log = <<>> /\ io = <<>> /\ crashed = FALSE

\* the caller takes the result; the next call starts from a fresh struct
Return ==
    /\ op # "idle"
    /\ op' = "idle" /\ args' = NoArgs /\ ret' = 0 /\ params' = ZeroParams
    /\ uuid_string' = Null /\ log' = <<>> /\ io' = <<>> /\ crashed' = FALSE
    /\ UNCHANGED <<sb_sector, sb_offset, wrote>>

ReadSb ==
    /\ op = "idle"
    /\ \E flags \in {0, CRYPT_VERITY_NO_HEADER}, env \in ReadEnvs :
         LET r == VERITY_read_sb(sb_sector, sb_offset, Null,
                                 [ZeroParams EXCEPT !.flags = flags], env)
         IN  /\ op' = "read_sb"
             /\ args' = [flags |-> flags]
             /\ ret' = r.ret
             /\ params' = r.params
             /\ uuid_string' = r.uuid_string
             /\ log' = r.log
             /\ io' = r.io
    /\ UNCHANGED <<sb_sector, sb_offset, wrote, crashed>>

WriteSb ==
    /\ op = "idle"
    /\ \E p \in WriteParams, flags \in {0, CRYPT_VERITY_NO_HEADER},
          u \in UuidTexts, env \in WriteEnvs :
         LET in == [p EXCEPT !.flags = flags]
             r == VERITY_write_sb(sb_sector, sb_offset, u, in, env)
         IN  /\ op' = "write_sb"
             /\ args' = [flags |-> flags, uuid_string |-> u]
             /\ ret' = r.ret
             /\ log' = r.log
             /\ io' = r.io
             /\ sb_sector' = r.sb_sector
             /\ wrote' = IF r.ret # 0 THEN wrote
                         ELSE [st |-> "written", params |-> in, uuid_string |-> u]
    /\ UNCHANGED <<sb_offset, params, uuid_string, crashed>>

NextCodec == ReadSb \/ WriteSb \/ Return
SpecCodec == InitCodec /\ [][NextCodec]_vars

(***************************************************************************)
(* What a finished codec call did, read off its record of calls            *)
(***************************************************************************)
OpenFailed == \E i \in Calls(io, "open") : io[i].r = -1
SeekFailed == \E i \in Calls(io, "lseek") : io[i].r < 0
ShortRead == \E i \in Calls(io, "read_blockwise") : io[i].r < SB_SIZE
ShortWrite == \E i \in Calls(io, "write_lseek_blockwise") : io[i].r < SB_SIZE
AllocFailed(fn) == \E i \in Calls(io, fn) : io[i].r = 0
HeaderRead == \E i \in Calls(io, "read_blockwise") : io[i].r = SB_SIZE
Opened == {i \in Calls(io, "open") : io[i].r # -1}
Closed == Calls(io, "close")

\* the header fields as they lie in the sector
OnDisk(off, size) == FromLE(Field(sb_sector, off, size))
RejectCause(sb) ==
    IF FromLE(Field(sb, OFF_version, 4)) # 1 THEN "version"
    ELSE IF FromLE(Field(sb, OFF_hash_type, 4)) \notin {0, 1} THEN "hash_type"
    ELSE IF FromLE(Field(sb, OFF_data_block_size, 8)) % 512 # 0
            \/ FromLE(Field(sb, OFF_hash_block_size, 8)) % 512 # 0 THEN "block_size"
    ELSE IF FromLE(Field(sb, OFF_salt_size, 8)) > 256 THEN "salt_size"
    ELSE "none"

\* the field ranges of a struct that a header can hold
ValidRanges(p) ==
    /\ ~HasFlag(p.flags, CRYPT_VERITY_NO_HEADER)
    /\ p.hash_type \in {0, 1}
    /\ p.data_block_size % 512 = 0 /\ p.hash_block_size % 512 = 0
    /\ p.salt_size <= 256
    /\ p.hash_name.st = "valid" /\ Len(p.hash_name.val) <= 32

(***************************************************************************)
(* C5. Round trip: a struct with valid field ranges written by             *)
(* VERITY_write_sb with a valid UUID text, then read by VERITY_read_sb at  *)
(* the same offset of the same device, with every library call working:    *)
(* both calls return 0 and the read reproduces the algorithm name, both    *)
(* block sizes, the data block count, the salt and its size, and the hash  *)
(* type.                                                                   *)
(***************************************************************************)
C5_RoundTrip ==
    /\ (op = "write_sb" /\ ~OpenFailed /\ ~ShortWrite /\ io # <<>>)
          => (ret = 0 /\ wrote.st = "written")
    /\ (/\ op = "read_sb" /\ ~HasFlag(args.flags, CRYPT_VERITY_NO_HEADER)
        /\ wrote.st = "written" /\ ValidRanges(wrote.params)
        /\ ~OpenFailed /\ ~SeekFailed /\ ~ShortRead
        /\ ~AllocFailed("strndup") /\ ~AllocFailed("malloc(salt_size)"))
          => /\ ret = 0
             /\ params.hash_name = wrote.params.hash_name
             /\ params.data_block_size = wrote.params.data_block_size
             /\ params.hash_block_size = wrote.params.hash_block_size
             /\ params.data_size = wrote.params.data_size
             /\ params.salt = wrote.params.salt
             /\ params.salt_size = wrote.params.salt_size
             /\ params.hash_type = wrote.params.hash_type

C5_Witness ==
    /\ op = "read_sb" /\ ret = 0 /\ wrote.st = "written" /\ ValidRanges(wrote.params)
    /\ Len(wrote.params.hash_name.val) = ALG_LEN
    /\ params.hash_name = wrote.params.hash_name

(***************************************************************************)
(* C6. Bounds rejection in VERITY_read_sb for a header that was read in    *)
(* full and whose signature is valid.  As amended: the checks run in the   *)
(* order version, hash type, block sizes, salt size, and every rejection   *)
(* returns the same code -EINVAL; what tells them apart is the diagnostic, *)
(* one message per check.  The salt size check comes after the allocation  *)
(* of the algorithm name, whose failure returns -ENOMEM.                   *)
(***************************************************************************)
C6_RejectionOrder ==
    /\ Cardinality({MSG_VERSION, MSG_HASH_TYPE, MSG_BLOCK_SIZE, MSG_CORRUPTED}) = 4
    /\ (op = "read_sb" /\ HeaderRead /\ SignatureOk(sb_sector)) =>
          IF OnDisk(OFF_version, 4) # 1
          THEN ret = -EINVAL /\ log = <<MSG_VERSION>>
          ELSE IF OnDisk(OFF_hash_type, 4) \notin {0, 1}
          THEN ret = -EINVAL /\ log = <<MSG_HASH_TYPE>>
          ELSE IF OnDisk(OFF_data_block_size, 8) % 512 # 0
                  \/ OnDisk(OFF_hash_block_size, 8) % 512 # 0
          THEN ret = -EINVAL /\ log = <<MSG_BLOCK_SIZE>>
          ELSE IF AllocFailed("strndup")
          THEN ret = -ENOMEM
          ELSE IF OnDisk(OFF_salt_size, 8) > 256
          THEN ret = -EINVAL /\ log = <<MSG_CORRUPTED>>
          ELSE ret \in {0, -ENOMEM}

\* a header wrong in its hash type, a block size and its salt size at once
C6_Witness ==
    /\ op = "read_sb" /\ HeaderRead /\ SignatureOk(sb_sector)
    /\ OnDisk(OFF_version, 4) = 1 /\ OnDisk(OFF_hash_type, 4) = 2
    /\ OnDisk(OFF_data_block_size, 8) = 1000 /\ OnDisk(OFF_salt_size, 8) = 257
    /\ ret = -EINVAL /\ log = <<MSG_HASH_TYPE>>

\* C6 as claimed: each of the four rejections has an error kind of its own, so
\* the value returned for one is returned for no header rejected by another.
C6_DistinctErrorKinds ==
    (op = "read_sb" /\ HeaderRead /\ SignatureOk(sb_sector) /\ ret # 0
     /\ RejectCause(sb_sector) # "none" /\ ~AllocFailed("strndup")) =>
        \A h \in InitImages :
            (SignatureOk(h) /\ RejectCause(h) \notin {"none", RejectCause(sb_sector)}) =>
                VERITY_read_sb(h, sb_offset, Null, ZeroParams, GoodRead).ret # ret

(***************************************************************************)
(* C8. Device failures in VERITY_read_sb and VERITY_write_sb.  As amended: *)
(* a failed seek, a failed or short read and a failed or short write are   *)
(* reported as -EIO, which differs from the -EINVAL of an incompatible     *)
(* flag or an unparseable UUID; a failed open is reported as -EINVAL, the  *)
(* same code as those.                                                     *)
(***************************************************************************)
C8_DeviceFailures ==
    (op \in {"read_sb", "write_sb"}) =>
        /\ (SeekFailed \/ ShortRead \/ ShortWrite) => ret = -EIO
        /\ OpenFailed => (ret = -EINVAL /\ log = <<MSG_OPEN>>)
        /\ HasFlag(args.flags, CRYPT_VERITY_NO_HEADER) => ret = -EINVAL
        /\ (op = "write_sb" /\ (args.uuid_string.st = "null"
                                  \/ ~uuid_parse_ok(args.uuid_string.val)))
              => ret = -EINVAL
        /\ -EIO # -EINVAL

C8_Witness ==
    /\ op = "read_sb" /\ ShortRead /\ ret = -EIO
    /\ \E i \in Calls(io, "read_blockwise") : io[i].r = SB_SIZE - 1

\* C8 as claimed: every failure to open, seek, read or write is an IOError
C8_EveryFailureIsEIO ==
    (op \in {"read_sb", "write_sb"} /\ (OpenFailed \/ SeekFailed \/ ShortRead \/ ShortWrite))
        => ret = -EIO

(***************************************************************************)
(* C9. Every handle opened by VERITY_read_sb or VERITY_write_sb is closed  *)
(* exactly once before the call returns, on every exit path, and close is  *)
(* not called when open failed or was not reached.                         *)
(***************************************************************************)
C9_HandleClosedOnce ==
    (op \in {"read_sb", "write_sb"}) =>
        /\ Cardinality(Opened) <= 1
        /\ Cardinality(Closed) = Cardinality(Opened)
        /\ \A c \in Closed : \E o \in Opened : o < c
        /\ \A c \in Closed :
              \A i \in Calls(io, "lseek") \cup Calls(io, "read_blockwise")
                        \cup Calls(io, "write_lseek_blockwise") : i < c

C9_Witness ==
    /\ op = "read_sb" /\ SeekFailed /\ ret = -EIO
    /\ Cardinality(Opened) = 1 /\ Cardinality(Closed) = 1

(***************************************************************************)
(* The offset calculation and the activation as a state machine            *)
(***************************************************************************)
HashBlockSizes == {0, 512, 1024, 4096}
VROOT == <<118, 114, 111, 111, 116>>
Names == {Null, Valid(VROOT)}
\* what a collaborator may return: an errno, 0, or a positive value
Rets == {-EIO, -EINVAL, -ENOTSUP, 0, 1}
DevSectors == 2048

ActivateParams ==
    {[BaseParams EXCEPT !.flags = f, !.hash_block_size = h, !.hash_area_offset = o,
                        !.data_size = z] :
        f \in 0..(CRYPT_VERITY_NO_HEADER + CRYPT_VERITY_CHECK_HASH),
        h \in {0, 4096}, o \in Offsets, z \in DataSizes}

\* these calls read no device: the sector is left empty
InitActivation ==
    /\ sb_sector = <<>>
    /\ sb_offset = 0
    /\ wrote = NoWrite
    /\ op = "idle" /\ args = NoArgs /\ ret = 0 /\ params = ZeroParams
    /\ uuid_string = Null /\ log = <<>> /\ io = <<>> /\ crashed = FALSE

HashOffsetBlock ==
    /\ op = "idle"
    /\ \E f \in {0, CRYPT_VERITY_NO_HEADER}, o \in 0..MaxAreaOffset, h \in HashBlockSizes :
         LET p == [ZeroParams EXCEPT !.flags = f, !.hash_area_offset = o,
                                     !.hash_block_size = h]
         IN  \E out \in VERITY_hash_offset_block(p) :
                /\ op' = "hash_offset_block"
                /\ args' = [flags |-> f]
                /\ params' = p
                /\ ret' = out.val
                /\ crashed' = out.crashed
    /\ UNCHANGED <<sb_sector, sb_offset, wrote, uuid_string, log, io>>

Activate ==
    /\ op = "idle"
    /\ \E name \in Names, hdr \in ActivateParams, aflags \in {0, 1} :
         \E v \in Rets, c \in Rets, a \in BOOLEAN, m \in Rets, k \in BOOLEAN, t \in Rets,
            ho \in VERITY_hash_offset_block(hdr) :
             LET env == [verify |-> v, check |-> c, adjust |-> a, dev_size |-> DevSectors,
                         create |-> m, supported |-> k, status |-> t, ho |-> ho]
                 r == VERITY_activate(name, hdr, aflags, env)
             IN  /\ op' = "activate"
                 /\ args' = [flags |-> hdr.flags, name |-> name, activation_flags |-> aflags]
                 /\ params' = hdr
                 /\ ret' = r.ret
                 /\ log' = r.log
                 /\ io' = r.io
                 /\ crashed' = r.crashed
    /\ UNCHANGED <<sb_sector, sb_offset, wrote, uuid_string>>

NextActivation == HashOffsetBlock \/ Activate \/ Return
SpecActivation == InitActivation /\ [][NextActivation]_vars

(***************************************************************************)
(* What a finished VERITY_activate call did                                *)
(***************************************************************************)
Activated == op = "activate"
Named == args.name.st = "valid"
Called(fn) == Calls(io, fn) # {}
\* the value the one call of fn returned (fn was called)
Returned(fn) == io[CHOOSE i \in Calls(io, fn) : TRUE].r
\* a collaborator's result on which VERITY_activate gives up
ReportedError(e) ==
    \/ e.fn = "VERITY_verify" /\ e.r < 0
    \/ e.fn = "device_check_and_adjust" /\ e.r # 0
    \/ e.fn = "dm_create_device" /\ e.r < 0
    \/ e.fn = "dm_status_verity_ok" /\ e.r < 0
Rank(fn) ==
    CASE fn = "VERITY_verify" -> 1
      [] fn = "device_check_and_adjust" -> 2
      [] fn = "dm_create_device" -> 3
      [] fn = "dm_flags" -> 4
      [] fn = "dm_status_verity_ok" -> 5

(***************************************************************************)
(* C1. With CRYPT_VERITY_CHECK_HASH set, a negative result of the verifier *)
(* is what VERITY_activate returns, and the call issues no                 *)
(* dm_create_device (nor any other collaborator call), whatever the name,  *)
(* the activation flags and the other collaborators would have done.       *)
(***************************************************************************)
C1_VerifyFailureAborts ==
    (/\ Activated /\ HasFlag(params.flags, CRYPT_VERITY_CHECK_HASH)
     /\ Called("VERITY_verify") /\ Returned("VERITY_verify") < 0)
        => /\ ret = Returned("VERITY_verify")
           /\ ~Called("dm_create_device")
           /\ io = <<Ev("VERITY_verify", ret)>>
           /\ ~crashed

C1_Witness ==
    /\ Activated /\ Named /\ HasFlag(params.flags, CRYPT_VERITY_CHECK_HASH)
    /\ args.activation_flags = 1
    /\ Called("VERITY_verify") /\ Returned("VERITY_verify") = -EIO /\ ret = -EIO

(***************************************************************************)
(* C2. When dm_create_device returned 0 and the kernel lacks dm-verity,    *)
(* VERITY_activate returns -ENOTSUP with its diagnostic and does not query *)
(* the status.  When dm_create_device reported an error, that error is     *)
(* what is returned, the capability is not looked at and the diagnostic is *)
(* not printed.  The diagnostic is never printed before dm_create_device   *)
(* was called and returned 0.                                              *)
(***************************************************************************)
C2_NotSupportedAfterCreate ==
    Activated =>
        /\ (Called("dm_create_device") /\ Returned("dm_create_device") = 0
             /\ Called("dm_flags") /\ Returned("dm_flags") = 0)
              => (ret = -ENOTSUP /\ log = <<MSG_NO_DM_VERITY>>
                  /\ ~Called("dm_status_verity_ok"))
        /\ (Called("dm_create_device") /\ Returned("dm_create_device") < 0)
              => (ret = Returned("dm_create_device") /\ log = <<>>
                  /\ ~Called("dm_flags") /\ ~Called("dm_status_verity_ok"))
        /\ (\E i \in DOMAIN log : log[i] = MSG_NO_DM_VERITY)
              => (Called("dm_create_device") /\ Returned("dm_create_device") = 0
                  /\ ret = -ENOTSUP)
        /\ (Called("dm_create_device") /\ Returned("dm_create_device") = 0)
              => Called("dm_flags")

C2_Witness ==
    /\ Activated /\ Called("dm_create_device") /\ Returned("dm_create_device") = 0
    /\ Called("dm_flags") /\ Returned("dm_flags") = 0
    /\ ret = -ENOTSUP /\ ~Called("dm_status_verity_ok")

(***************************************************************************)
(* C3. Once the mapping is created, the status query decides the result:   *)
(* a status of "corruption detected" (0) gives success with a warning, the *)
(* same return value 0 as a healthy status; a failed query gives its own   *)
(* negative error.  The return value tells the two apart.                  *)
(***************************************************************************)
C3_StatusDecides ==
    (Activated /\ Called("dm_status_verity_ok")) =>
        /\ Called("dm_create_device") /\ Returned("dm_create_device") >= 0
        /\ Returned("dm_status_verity_ok") < 0
              => (ret = Returned("dm_status_verity_ok") /\ ret < 0 /\ log = <<>>)
        /\ Returned("dm_status_verity_ok") = 0
              => (ret = 0 /\ log = <<MSG_CORRUPTION>>)
        /\ Returned("dm_status_verity_ok") > 0
              => (ret = 0 /\ log = <<>>)

C3_Witness ==
    /\ Activated /\ Called("dm_status_verity_ok") /\ Returned("dm_status_verity_ok") = 0
    /\ ret = 0 /\ log = <<MSG_CORRUPTION>>

(***************************************************************************)
(* C4. Without a name VERITY_activate only verifies: it calls neither      *)
(* dm_create_device nor device_check_and_adjust nor dm_status_verity_ok,   *)
(* and returns 0 unless the verifier reported an error.                    *)
(***************************************************************************)
C4_VerifyOnly ==
    (Activated /\ ~Named) =>
        /\ ~Called("dm_create_device")
        /\ ~Called("device_check_and_adjust")
        /\ ~Called("dm_status_verity_ok")
        /\ ~Called("dm_flags")
        /\ ~crashed
        /\ Called("VERITY_verify") <=> HasFlag(params.flags, CRYPT_VERITY_CHECK_HASH)
        /\ (~Called("VERITY_verify") \/ Returned("VERITY_verify") >= 0) => ret = 0

C4_Witness ==
    /\ Activated /\ ~Named /\ Called("VERITY_verify") /\ Returned("VERITY_verify") = 0
    /\ ret = 0 /\ Len(io) = 1

(***************************************************************************)
(* C7. VERITY_hash_offset_block never fails and returns, with the "no      *)
(* header" flag, hash_area_offset / hash_block_size, and without it        *)
(* (hash_area_offset + 512 + hash_block_size - 1) / hash_block_size.       *)
(* The quotients are stated where they exist, for hash_block_size > 0.     *)
(***************************************************************************)
C7_HashOffsetNeverFails ==
    (op = "hash_offset_block") =>
        /\ ~crashed
        /\ params.hash_block_size > 0 =>
              ret = IF HasFlag(params.flags, CRYPT_VERITY_NO_HEADER)
                    THEN params.hash_area_offset \div params.hash_block_size
                    ELSE (params.hash_area_offset + 512 + params.hash_block_size - 1)
                            \div params.hash_block_size

(***************************************************************************)
(* C10. In a VERITY_activate call with a name the collaborators are called *)
(* at most once each and in the order verifier (if and only if             *)
(* CRYPT_VERITY_CHECK_HASH is set), device_check_and_adjust,               *)
(* dm_create_device, dm_status_verity_ok; a collaborator that reported an  *)
(* error is the last one called and its error is what is returned, so a    *)
(* failed device check is never followed by dm_create_device.              *)
(***************************************************************************)
C10_CollaboratorOrder ==
    (Activated /\ Named) =>
        /\ \A i, j \in DOMAIN io : i < j => Rank(io[i].fn) < Rank(io[j].fn)
        /\ Called("VERITY_verify") <=> HasFlag(params.flags, CRYPT_VERITY_CHECK_HASH)
        /\ \A i \in DOMAIN io :
              ReportedError(io[i]) => (i = Len(io) /\ ret = io[i].r /\ ~crashed)
        /\ Called("dm_create_device") =>
              (Called("device_check_and_adjust") /\ Returned("device_check_and_adjust") = 0)
        /\ Called("dm_status_verity_ok") => Called("dm_create_device")

C10_Witness ==
    /\ Activated /\ Named /\ HasFlag(params.flags, CRYPT_VERITY_CHECK_HASH)
    /\ Called("VERITY_verify") /\ Returned("VERITY_verify") = 0
    /\ Called("device_check_and_adjust") /\ Returned("device_check_and_adjust") = -EINVAL
    /\ ret = -EINVAL /\ ~Called("dm_create_device")

=============================================================================
